---- MODULE Spec2Model ----
(***************************************************************************)
(* Model of the follow-redirects extension for hyper: the redirect state   *)
(* machine (machine.rs), the body buffer (buffer.rs), the URI helpers      *)
(* (uri.rs) and the future that drives them (future.rs).                   *)
(*                                                                         *)
(* Text (URIs, Location values) is a sequence of tokens: a scheme, "://",  *)
(* a host, a port, a path-and-query.  Parsing turns text into parts and    *)
(* formatting turns parts back into text.                                  *)
(***************************************************************************)
EXTENDS Integers, Sequences, FiniteSets, TLC

\* ------------------------------------------------------------------ bounds
MaxRedirects == 2
MaxChunks == 2
MaxNotReady == 1
ChainMaxRedirects == 6

\* --------------------------------------------------------- program constant
DEFAULT_MAX_REDIRECTS == 10

\* ------------------------------------------------------------- vocabulary
Schemes == {"http", "https"}
Hosts == {"a.com", "b.com"}
Ports == {":8080"}
Paths == {"/", "/foo", "/bar", "/baz", "/quux", "/other", "/p", "/p?q", "/x", "/y"}

Methods == {"GET", "POST"}
RedirectStatuses == {301, 302, 303, 307, 308}
Statuses == RedirectStatuses \cup {202, 400}

SensitiveHeaders == {"Authorization", "Cookie", "Cookie2", "WWW-Authenticate"}

\* ------------------------------------------------------------ URI handling
\* http::uri::Parts; an absent component is the empty sequence, a present
\* path-and-query with no characters is <<"">>.
UriErr == [ok |-> FALSE, scheme |-> <<>>, authority |-> <<>>, path |-> <<>>]

MkParts(s, a, p) == [ok |-> TRUE, scheme |-> s, authority |-> a, path |-> p]

\* str::parse::<Uri>() followed by into_parts(): origin form ("/x"),
\* authority form ("host[:port]") or absolute form ("scheme://host[:port][/x]").
ParseUri(s) ==
    LET n == Len(s) IN
    IF n = 0 THEN UriErr
    ELSE IF s[1] \in Paths
        THEN IF n = 1 THEN MkParts(<<>>, <<>>, <<s[1]>>) ELSE UriErr
    ELSE IF s[1] \in Hosts
        THEN IF n = 1 THEN MkParts(<<>>, <<s[1]>>, <<>>)
             ELSE IF n = 2 /\ s[2] \in Ports THEN MkParts(<<>>, <<s[1], s[2]>>, <<>>)
             ELSE UriErr
    ELSE IF s[1] \in Schemes /\ n >= 3 /\ s[2] = "://" /\ s[3] \in Hosts
        THEN IF n = 3 THEN MkParts(<<s[1]>>, <<s[3]>>, <<"">>)
             ELSE IF n = 4 /\ s[4] \in Ports THEN MkParts(<<s[1]>>, <<s[3], s[4]>>, <<"">>)
             ELSE IF n = 4 /\ s[4] \in Paths THEN MkParts(<<s[1]>>, <<s[3]>>, <<s[4]>>)
             ELSE IF n = 5 /\ s[4] \in Ports /\ s[5] \in Paths
                THEN MkParts(<<s[1]>>, <<s[3], s[4]>>, <<s[5]>>)
             ELSE UriErr
    ELSE UriErr

\* Uri::from_parts: a scheme needs an authority and a path; an authority with a
\* path needs a scheme.
FromParts(p) ==
    IF p.scheme # <<>>
        THEN IF p.authority = <<>> \/ p.path = <<>> THEN UriErr ELSE p
        ELSE IF p.authority # <<>> /\ p.path # <<>> THEN UriErr ELSE p

\* Display for Uri: "scheme://", authority, path; an empty path prints as "/".
UriToString(p) ==
    (IF p.scheme # <<>> THEN p.scheme \o <<"://">> ELSE <<>>)
        \o p.authority
        \o (IF p.path = <<"">> THEN <<"/">> ELSE p.path)

\* Uri::host and Uri::port of a parsed URI (absent: the empty sequence).
UriHost(u) == LET p == ParseUri(u) IN IF p.authority = <<>> THEN <<>> ELSE <<p.authority[1]>>

UriPort(u) == LET p == ParseUri(u) IN IF Len(p.authority) < 2 THEN <<>> ELSE <<p.authority[2]>>

is_same_host(a, b) == UriHost(a) = UriHost(b) /\ UriPort(a) = UriPort(b)

\* Variant of compute_redirect: the scheme of the current URI always wins.
compute_redirect_old_scheme(self, location) ==
    LET new_uri == ParseUri(location)
        old_parts == ParseUri(self)
        new_parts == [new_uri EXCEPT
                        !.scheme = old_parts.scheme,
                        !.authority = IF @ = <<>> THEN old_parts.authority ELSE @]
        absolute_new_uri == FromParts(new_parts)
    IN  IF ~new_uri.ok \/ ~absolute_new_uri.ok THEN [ok |-> FALSE, uri |-> <<>>]
        ELSE [ok |-> TRUE, uri |-> UriToString(absolute_new_uri)]

\* UriExt::compute_redirect: parse the Location, inherit a missing scheme and a
\* missing authority from self, recombine.  The result is given by its text.
compute_redirect(self, location) ==
    LET new_uri == ParseUri(location)
        old_parts == ParseUri(self)
        new_parts == [new_uri EXCEPT
                        !.scheme = IF @ = <<>> THEN old_parts.scheme ELSE @,
                        !.authority = IF @ = <<>> THEN old_parts.authority ELSE @]
        absolute_new_uri == FromParts(new_parts)
    IN  IF ~new_uri.ok \/ ~absolute_new_uri.ok THEN [ok |-> FALSE, uri |-> <<>>]
        ELSE [ok |-> TRUE, uri |-> UriToString(absolute_new_uri)]

\* hyper's own str::parse::<Uri>(), which checks the form only: the empty text
\* is refused; "*" and a text that starts with a path are accepted; a text
\* with "://" is absolute, refused when no authority follows the "://" and
\* given the path "/" when it has none; any other text with a path in it is
\* refused and the rest is taken for an authority.  The value keeps the text.
HyperParseUri(s) ==
    LET n == Len(s)
        seps == {i \in 1..n : s[i] = "://"}
        sep == CHOOSE i \in seps : \A j \in seps : i <= j
        paths == {i \in 1..n : s[i] \in Paths}
    IN  IF n = 0 THEN [ok |-> FALSE, uri |-> s]
        ELSE IF s = <<"*">> \/ s[1] \in Paths THEN [ok |-> TRUE, uri |-> s]
        ELSE IF seps # {}
            THEN IF sep = n \/ sep + 1 \in paths THEN [ok |-> FALSE, uri |-> s]
                 ELSE IF \E j \in paths : j > sep THEN [ok |-> TRUE, uri |-> s]
                 ELSE [ok |-> TRUE, uri |-> s \o <<"/">>]
        ELSE IF paths # {} THEN [ok |-> FALSE, uri |-> s]
        ELSE [ok |-> TRUE, uri |-> s]

\* ---------------------------------------------------------------- values
None == [some |-> FALSE, bytes |-> <<>>]

Some(b) == [some |-> TRUE, bytes |-> b]

NoState == [method |-> "", uri |-> <<>>, version |-> "", headers |-> {},
            body |-> None, remaining_redirects |-> 0]

NoRequest == [method |-> "", uri |-> <<>>, version |-> "", headers |-> {}, body |-> <<>>]

NoResponse == [status |-> 0, has_location |-> FALSE, location |-> <<>>]

NoError == [kind |-> "", value |-> <<>>]

\* Poll<Result<Response, Error>> as last returned by FutureInner::poll.
NotPolled == [tag |-> "NotPolled", res |-> NoResponse, err |-> NoError]

Pending == [tag |-> "Pending", res |-> NoResponse, err |-> NoError]

ReadyOk(r) == [tag |-> "Ok", res |-> r, err |-> NoError]

ReadyErr(e) == [tag |-> "Err", res |-> NoResponse, err |-> e]

\* Error::Hyper (From<hyper::Error>), Error::Request (Error::request).
ErrorHyper == [kind |-> "Hyper", value |-> <<>>]

ErrorRequest == [kind |-> "Request", value |-> <<>>]

\* ------------------------------------------------------- the environment
AllHeaders == {<<"Authorization", "secret">>, <<"Cookie", "c1">>, <<"Cookie2", "c2">>,
               <<"WWW-Authenticate", "Basic">>, <<"Accept", "any">>}

HeaderSets == {{<<"Accept", "any">>}, AllHeaders}

\* The URI of the caller's request, a hyper Uri: an absolute one always has a
\* path.
OriginalUris == {<<"http", "://", "a.com", "/">>, <<"/foo">>}

Locations == {<<"/bar">>,
              <<"https", "://", "b.com">>,
              <<"http", "://", "a.com", ":8080", "/foo">>,
              <<"b.com">>,
              <<"%">>}

Responses == [status : RedirectStatuses, has_location : {TRUE}, location : Locations]
             \cup [status : {202}, has_location : {TRUE}, location : {<<"/bar">>}]
             \cup [status : RedirectStatuses \cup {202}, has_location : {FALSE},
                   location : {<<>>}]

\* An item of the body stream: an error, or a chunk of data (B::Data, any Buf)
\* given by its contiguous slices: the one-slice chunk [1] and the chunk of
\* the two slices [2] and [3].
StreamItems == {[err |-> FALSE, data |-> <<(<<1>>)>>],
                [err |-> FALSE, data |-> <<(<<2>>), (<<3>>)>>],
                [err |-> TRUE, data |-> <<>>]}

\* What a body stream yields up to its end or up to and including its first error.
Streams == {s \in UNION {[1..n -> StreamItems] : n \in 0..MaxChunks} :
              \A i \in 1..(Len(s) - 1) : ~s[i].err}

\* ------------------------------------------------------------ buffer.rs
\* Buf::chunk: the first contiguous slice of a chunk of data.
chunk(d) == IF Len(d) = 0 THEN <<>> ELSE d[1]

\* Variant of Buffer::poll: "not ready" is taken for the end of the stream.
RECURSIVE BufferPoll_eager(_, _, _, _)
BufferPoll_eager(b, s, i, k) ==
    IF k = 0 \/ i >= Len(s) THEN [out |-> "Ok", buf |-> b, taken |-> i]
    ELSE IF s[i + 1].err THEN [out |-> "Err", buf |-> b, taken |-> i + 1]
    ELSE BufferPoll_eager(b \o chunk(s[i + 1].data), s, i + 1, k - 1)

\* Variant of Buffer::poll: the end of the stream is reported as "not ready".
RECURSIVE BufferPoll_hang(_, _, _, _)
BufferPoll_hang(b, s, i, k) ==
    IF k = 0 \/ i >= Len(s) THEN [out |-> "Pending", buf |-> b, taken |-> i]
    ELSE IF s[i + 1].err THEN [out |-> "Err", buf |-> b, taken |-> i + 1]
    ELSE BufferPoll_hang(b \o chunk(s[i + 1].data), s, i + 1, k - 1)

\* Variant of Buffer::poll: an error item of the stream is skipped.
RECURSIVE BufferPoll_ignore_err(_, _, _, _)
BufferPoll_ignore_err(b, s, i, k) ==
    IF k = 0 THEN [out |-> "Pending", buf |-> b, taken |-> i]
    ELSE IF i >= Len(s) THEN [out |-> "Ok", buf |-> b, taken |-> i + 1]
    ELSE IF s[i + 1].err THEN BufferPoll_ignore_err(b, s, i + 1, k - 1)
    ELSE BufferPoll_ignore_err(b \o chunk(s[i + 1].data), s, i + 1, k - 1)

\* Buffer::poll: the loop over poll_data.  s is the body stream, i the number of
\* its items already taken (the end of the stream counts as one more item) and
\* k the number of items the stream has ready in this poll before it reports
\* "not ready".
RECURSIVE BufferPoll(_, _, _, _)
BufferPoll(b, s, i, k) ==
    IF k = 0 THEN [out |-> "Pending", buf |-> b, taken |-> i]
    ELSE IF i >= Len(s) THEN [out |-> "Ok", buf |-> b, taken |-> i + 1]
    ELSE IF s[i + 1].err THEN [out |-> "Err", buf |-> b, taken |-> i + 1]
    ELSE BufferPoll(b \o chunk(s[i + 1].data), s, i + 1, k - 1)

\* ----------------------------------------------------------- machine.rs
\* Variant of StateMachine::new: the caller's limit is ignored.
new_zero_budget(r, max) ==
    [method |-> r.method, uri |-> r.uri, version |-> r.version, headers |-> r.headers,
     body |-> None, remaining_redirects |-> 0]

new(r, max) ==
    [method |-> r.method, uri |-> r.uri, version |-> r.version, headers |-> r.headers,
     body |-> None, remaining_redirects |-> max]

set_body(st, body) == [st EXCEPT !.body = body]

\* Variant of create_request: every materialized request gets a Host header.
create_request_add_host(st) ==
    [method |-> st.method, uri |-> st.uri, version |-> st.version,
     headers |-> st.headers \cup {<<"Host", "any">>},
     body |-> IF st.body.some THEN st.body.bytes ELSE <<>>]

create_request(st) ==
    [method |-> st.method, uri |-> st.uri, version |-> st.version, headers |-> st.headers,
     body |-> IF st.body.some THEN st.body.bytes ELSE <<>>]

Decide(d, st) == [decision |-> d, state |-> st]

\* Variant of the Location arm: the Location is taken as it is, nothing is
\* inherited from the current URI.
RedirectTarget_no_inherit(uri, location) ==
    LET new_parts == ParseUri(location)
        old_parts == ParseUri(uri)
        absolute_new_uri == FromParts(new_parts)
        parsed == HyperParseUri(UriToString(absolute_new_uri))
    IN  IF ~new_parts.ok THEN [ok |-> FALSE, uri |-> uri]
        ELSE IF ~old_parts.ok THEN [ok |-> FALSE, uri |-> uri]
        ELSE IF ~absolute_new_uri.ok THEN [ok |-> FALSE, uri |-> uri]
        ELSE parsed

\* follow_redirect, the Location arm: parse the Location, inherit the scheme and
\* the authority of the current URI, recombine, print and parse again.
RedirectTarget(uri, location) ==
    LET new_parts == ParseUri(location)
        old_parts == ParseUri(uri)
        merged == [new_parts EXCEPT
                     !.scheme = IF @ = <<>> THEN old_parts.scheme ELSE @,
                     !.authority = IF @ = <<>> THEN old_parts.authority ELSE @]
        absolute_new_uri == FromParts(merged)
        parsed == HyperParseUri(UriToString(absolute_new_uri))
    IN  IF ~new_parts.ok THEN [ok |-> FALSE, uri |-> uri]
        ELSE IF ~old_parts.ok THEN [ok |-> FALSE, uri |-> uri]
        ELSE IF ~absolute_new_uri.ok THEN [ok |-> FALSE, uri |-> uri]
        ELSE parsed

Follow(s1, res) ==
    IF ~res.has_location THEN Decide("Return", s1)
    ELSE LET t == RedirectTarget(s1.uri, res.location) IN
         IF ~t.ok THEN Decide("Err", s1)
         ELSE Decide("Continue", [s1 EXCEPT !.uri = t.uri])

\* Variants of follow_redirect: the budget is never spent; the budget check is
\* off by one; the credentials are dropped at every hop; a missing Location is
\* an error.
follow_redirect_unbounded(st, res) ==
    IF st.remaining_redirects = 0 THEN Decide("Return", st)
    ELSE Follow(st, res)

follow_redirect_off_by_one(st, res) ==
    IF st.remaining_redirects <= 1 THEN Decide("Return", st)
    ELSE Follow([st EXCEPT !.remaining_redirects = @ - 1], res)

follow_redirect_strip_always(st, res) ==
    IF st.remaining_redirects = 0 THEN Decide("Return", st)
    ELSE Follow([st EXCEPT !.remaining_redirects = @ - 1,
                           !.headers = {h \in @ : h[1] \notin SensitiveHeaders}], res)

follow_redirect_location_required(st, res) ==
    IF st.remaining_redirects = 0 THEN Decide("Return", st)
    ELSE IF ~res.has_location
        THEN Decide("Err", [st EXCEPT !.remaining_redirects = @ - 1])
    ELSE Follow([st EXCEPT !.remaining_redirects = @ - 1], res)

\* Variant of follow_redirect: the budget is spent only when the redirect is
\* followed.
follow_redirect_late_decrement(st, res) ==
    IF st.remaining_redirects = 0 THEN Decide("Return", st)
    ELSE LET f == Follow(st, res) IN
         IF f.decision = "Continue"
         THEN Decide("Continue", [f.state EXCEPT !.remaining_redirects = @ - 1])
         ELSE f

follow_redirect(st, res) ==
    IF st.remaining_redirects = 0 THEN Decide("Return", st)
    ELSE Follow([st EXCEPT !.remaining_redirects = @ - 1], res)

\* Variants of handle_response: 303 keeps the method and the body; 301 and 302
\* become GET without a body; 308 is not a redirect.
handle_response_keep_on_303(st, res) ==
    IF res.status \in RedirectStatuses THEN follow_redirect(st, res)
    ELSE Decide("Return", st)

handle_response_get_on_302(st, res) ==
    IF res.status \in {307, 308} THEN follow_redirect(st, res)
    ELSE IF res.status \in {301, 302, 303}
        THEN follow_redirect([st EXCEPT !.method = "GET", !.body = None], res)
    ELSE Decide("Return", st)

handle_response_no_308(st, res) ==
    IF res.status \in {301, 302, 307} THEN follow_redirect(st, res)
    ELSE IF res.status = 303
        THEN follow_redirect([st EXCEPT !.method = "GET", !.body = None], res)
    ELSE Decide("Return", st)

\* Variant of handle_response: any response with a Location is followed.
handle_response_follow_location(st, res) ==
    IF res.status = 303
        THEN follow_redirect([st EXCEPT !.method = "GET", !.body = None], res)
    ELSE IF res.status \in RedirectStatuses \/ res.has_location THEN follow_redirect(st, res)
    ELSE Decide("Return", st)

\* Variant of handle_response: a 307 or 308 makes the request a POST again.
handle_response_repost_on_307(st, res) ==
    IF res.status \in {301, 302} THEN follow_redirect(st, res)
    ELSE IF res.status \in {307, 308}
        THEN follow_redirect([st EXCEPT !.method = "POST"], res)
    ELSE IF res.status = 303
        THEN follow_redirect([st EXCEPT !.method = "GET", !.body = None], res)
    ELSE Decide("Return", st)

handle_response(st, res) ==
    IF res.status \in {301, 308} THEN follow_redirect(st, res)
    ELSE IF res.status \in {302, 307} THEN follow_redirect(st, res)
    ELSE IF res.status = 303
        THEN follow_redirect([st EXCEPT !.method = "GET", !.body = None], res)
    ELSE Decide("Return", st)

\* -------------------------------------------------------------- state
VARIABLES
    inner,          \* the FutureInner variant stored in the future
    req,            \* the caller's request (Lazy, then owned by the Buffer)
    max_redirects,  \* Client::max_redirects handed to FutureInner::new
    stream,         \* the items of the request's body stream
    taken,          \* how many of them poll_data has handed out
    buf,            \* Buffer::buf
    state,          \* the StateMachine
    sends,          \* number of client.request calls made
    sent,           \* the request handed to the last client.request call
    last_res,       \* the last response given to handle_response
    decision,       \* what handle_response returned for it
    result,         \* what FutureInner::poll last returned
    notReady        \* how often the body stream reported "not ready"

vars == <<inner, req, max_redirects, stream, taken, buf, state, sends, sent, last_res,
          decision, result, notReady>>

\* FutureInner::new, called by Client::request.
Init ==
    /\ inner = "Lazy"
    /\ req \in [method : Methods, uri : OriginalUris, version : {"HTTP/1.1"},
                headers : HeaderSets]
    /\ max_redirects \in 0..MaxRedirects
    /\ stream \in Streams
    /\ taken = 0
    /\ buf = <<>>
    /\ state = NoState
    /\ sends = 0
    /\ sent = NoRequest
    /\ last_res = NoResponse
    /\ decision = "None"
    /\ result = NotPolled
    /\ notReady = 0

\* ------------------------------------------------------------ future.rs
\* Variant of FutureInner::request: after a followed redirect the future goes
\* back to buffering the body.
request_rebuffer(st) ==
    /\ sent' = create_request(st)
    /\ sends' = sends + 1
    /\ state' = st
    /\ inner' = IF sends = 0 THEN "Requesting" ELSE "Buffering"

\* FutureInner::request: materialize the request and hand it to the client.
request(st) ==
    /\ sent' = create_request(st)
    /\ sends' = sends + 1
    /\ state' = st
    /\ inner' = "Requesting"

\* poll, Lazy arm: FutureInner::buffer.
PollLazy ==
    /\ inner = "Lazy"
    /\ state' = new(req, max_redirects)
    /\ req' = [req EXCEPT !.headers = {}]
    /\ buf' = <<>>
    /\ inner' = "Buffering"
    /\ UNCHANGED <<max_redirects, stream, taken, sends, sent, last_res, decision, result,
                   notReady>>

\* Variant of the Buffering arm: the variant taken out by mem::replace is not
\* put back when the buffer is not ready.
PollBufferingPending_no_restore ==
    /\ inner = "Buffering"
    /\ notReady < MaxNotReady
    /\ \E k \in 0..(Len(stream) + 1) :
         LET r == BufferPoll(buf, stream, taken, k) IN
           /\ r.out = "Pending"
           /\ buf' = r.buf
           /\ taken' = r.taken
    /\ notReady' = notReady + 1
    /\ result' = Pending
    /\ inner' = "Swapping"
    /\ UNCHANGED <<req, max_redirects, stream, state, sends, sent, last_res, decision>>

\* poll, Buffering arm, Buffer::poll returns Pending.
PollBufferingPending ==
    /\ inner = "Buffering"
    /\ notReady < MaxNotReady
    /\ \E k \in 0..(Len(stream) + 1) :
         LET r == BufferPoll(buf, stream, taken, k) IN
           /\ r.out = "Pending"
           /\ buf' = r.buf
           /\ taken' = r.taken
    /\ notReady' = notReady + 1
    /\ result' = Pending
    /\ UNCHANGED <<inner, req, max_redirects, stream, state, sends, sent, last_res, decision>>

\* poll, Buffering arm, Buffer::poll returns Ready(Ok(body)): set_body and request.
PollBufferingReady ==
    /\ inner = "Buffering"
    /\ \E k \in 0..(Len(stream) + 1) :
         LET r == BufferPoll(buf, stream, taken, k) IN
           /\ r.out = "Ok"
           /\ buf' = <<>>
           /\ taken' = r.taken
           /\ request(set_body(state, Some(r.buf)))
    /\ UNCHANGED <<req, max_redirects, stream, last_res, decision, result, notReady>>

\* poll, Buffering arm, Buffer::poll returns Ready(Err(e)).
PollBufferingErr ==
    /\ inner = "Buffering"
    /\ \E k \in 0..(Len(stream) + 1) :
         LET r == BufferPoll(buf, stream, taken, k) IN
           /\ r.out = "Err"
           /\ buf' = r.buf
           /\ taken' = r.taken
    /\ result' = ReadyErr(ErrorRequest)
    /\ inner' = "Swapping"
    /\ UNCHANGED <<req, max_redirects, stream, state, sends, sent, last_res, decision, notReady>>

\* poll, Requesting arm, the response future is not ready.
PollRequestingPending ==
    /\ inner = "Requesting"
    /\ result' = Pending
    /\ UNCHANGED <<inner, req, max_redirects, stream, taken, buf, state, sends, sent,
                   last_res, decision, notReady>>

\* Variant of the transport-failure arm: the error is returned but the future
\* keeps its Requesting state.
PollRequestingErr_resumable ==
    /\ inner = "Requesting"
    /\ result.tag # "Err"
    /\ result' = ReadyErr(ErrorHyper)
    /\ UNCHANGED <<inner, req, max_redirects, stream, taken, buf, state, sends, sent,
                   last_res, decision, notReady>>

\* poll, Requesting arm, the transport fails.
PollRequestingErr ==
    /\ inner = "Requesting"
    /\ result' = ReadyErr(ErrorHyper)
    /\ inner' = "Swapping"
    /\ UNCHANGED <<req, max_redirects, stream, taken, buf, state, sends, sent, last_res,
                   decision, notReady>>

\* poll, Requesting arm, a response arrives: FutureInner::redirect, Continue.
RedirectContinue(res) ==
    /\ inner = "Requesting"
    /\ LET h == handle_response(state, res) IN
         /\ h.decision = "Continue"
         /\ request(h.state)
    /\ last_res' = res
    /\ decision' = "Continue"
    /\ UNCHANGED <<req, max_redirects, stream, taken, buf, result, notReady>>

\* FutureInner::redirect, Return: the response is the future's output.
RedirectReturn(res) ==
    /\ inner = "Requesting"
    /\ LET h == handle_response(state, res) IN
         /\ h.decision = "Return"
         /\ state' = h.state
    /\ last_res' = res
    /\ decision' = "Return"
    /\ result' = ReadyOk(res)
    /\ inner' = "Swapping"
    /\ UNCHANGED <<req, max_redirects, stream, taken, buf, sends, sent, notReady>>

\* FutureInner::redirect, handle_response failed: the error is the output.
RedirectErr(res) ==
    /\ inner = "Requesting"
    /\ LET h == handle_response(state, res) IN
         /\ h.decision = "Err"
         /\ state' = h.state
    /\ last_res' = res
    /\ decision' = "Err"
    /\ result' = ReadyErr(ErrorHyper)
    /\ inner' = "Swapping"
    /\ UNCHANGED <<req, max_redirects, stream, taken, buf, sends, sent, notReady>>

PollRequestingContinue == \E res \in Responses : RedirectContinue(res)

PollRequestingReturn == \E res \in Responses : RedirectReturn(res)

PollRequestingInvalid == \E res \in Responses : RedirectErr(res)

Next ==
    \/ PollLazy
    \/ PollBufferingPending
    \/ PollBufferingReady
    \/ PollBufferingErr
    \/ PollRequestingPending
    \/ PollRequestingErr
    \/ PollRequestingContinue
    \/ PollRequestingReturn
    \/ PollRequestingInvalid

Spec == Init /\ [][Next]_vars

\* The environment is fair: the future is polled until it is ready, the body
\* stream eventually ends or fails, and every send eventually yields a
\* response or an error.
Fairness ==
    /\ WF_vars(PollLazy)
    /\ WF_vars(PollBufferingReady \/ PollBufferingErr)
    /\ WF_vars(PollRequestingErr \/ PollRequestingContinue \/ PollRequestingReturn
               \/ PollRequestingInvalid)

\* Termination does not depend on the method or the headers of the request:
\* the fair specification starts from the POST calls to an absolute URI that
\* carry every header, with every limit, body stream and chain of responses.
InitFair ==
    /\ Init
    /\ req.method = "POST"
    /\ req.uri = <<"http", "://", "a.com", "/">>
    /\ req.headers = AllHeaders

SpecFair == InitFair /\ [][Next]_vars /\ Fairness

\* ------------------------------------------------- tests/integration.rs
\* The path of a path-and-query, without the query.
PathOnly(pq) == IF pq = "/p?q" THEN "/p" ELSE pq

\* req.path() as the server sees it: the path without the query; "/" for the
\* empty path of an absolute URI, nothing for a URI without a path.
RequestPath(r) ==
    LET p == ParseUri(r.uri).path IN
    IF p = <<>> THEN "" ELSE IF p = <<"">> THEN "/" ELSE PathOnly(p[1])

Redirect(status, target) == [status |-> status, has_location |-> TRUE, location |-> <<target>>]

\* Svc::call of the redirect_chain test.
Svc(r) ==
    LET path == RequestPath(r) IN
    IF path = "/" THEN Redirect(301, "/foo")
    ELSE IF path = "/foo" THEN Redirect(308, "/bar")
    ELSE IF path = "/bar" THEN Redirect(302, "/baz")
    ELSE IF path = "/baz" THEN Redirect(307, "/quux")
    ELSE IF path = "/quux" THEN Redirect(303, "/other")
    ELSE IF path = "/other" THEN [status |-> 202, has_location |-> FALSE, location |-> <<>>]
    ELSE [status |-> 400, has_location |-> FALSE, location |-> <<>>]

ChainUris == {<<"http", "://", "a.com", "/">>, <<"http", "://", "a.com", ":8080", "/">>}

ChainLimits == (5..ChainMaxRedirects) \cup {DEFAULT_MAX_REDIRECTS}

ChainStreams == {s \in Streams : \A i \in 1..Len(s) : ~s[i].err}

\* The test's client and request, for any method, body and limit of at least 5.
InitChain ==
    /\ inner = "Lazy"
    /\ req \in [method : Methods, uri : ChainUris, version : {"HTTP/1.1"},
                headers : HeaderSets]
    /\ max_redirects \in ChainLimits
    /\ stream \in ChainStreams
    /\ taken = 0
    /\ buf = <<>>
    /\ state = NoState
    /\ sends = 0
    /\ sent = NoRequest
    /\ last_res = NoResponse
    /\ decision = "None"
    /\ result = NotPolled
    /\ notReady = 0

SvcContinue == RedirectContinue(Svc(sent))

SvcReturn == RedirectReturn(Svc(sent))

NextChain ==
    \/ PollLazy
    \/ PollBufferingPending
    \/ PollBufferingReady
    \/ PollRequestingPending
    \/ SvcContinue
    \/ SvcReturn

SpecChain == InitChain /\ [][NextChain]_vars

\* ------------------------------------------------------------ uri.rs, resolution
\* Calls whose original URI is absolute and whose body stream does not fail;
\* every response is a redirect whose Location is relative, absolute or an
\* authority without a path.  The body and the responses may be not ready
\* and the transport may fail.
ResolveBases ==
    {<<"http", "://", "a.com", "/p?q">>,
     <<"http", "://", "a.com", ":8080", "/p">>,
     <<"http", "://", "a.com", "/p">>,
     <<"https", "://", "b.com", "/">>}

ResolveLocations ==
    {<<"/x">>, <<"/y">>, <<"/p?q">>,
     <<"https", "://", "b.com", "/y">>,
     <<"http", "://", "a.com", ":8080", "/x">>,
     <<"https", "://", "b.com">>,
     <<"b.com">>}

ResolveResponses == [status : {302}, has_location : {TRUE}, location : ResolveLocations]

InitResolve ==
    /\ inner = "Lazy"
    /\ req \in [method : Methods, uri : ResolveBases, version : {"HTTP/1.1"},
                headers : HeaderSets]
    /\ max_redirects \in 1..MaxRedirects
    /\ stream \in ChainStreams
    /\ taken = 0
    /\ buf = <<>>
    /\ state = NoState
    /\ sends = 0
    /\ sent = NoRequest
    /\ last_res = NoResponse
    /\ decision = "None"
    /\ result = NotPolled
    /\ notReady = 0

ResolveContinue == \E res \in ResolveResponses : RedirectContinue(res)

ResolveReturn == \E res \in ResolveResponses : RedirectReturn(res)

ResolveInvalid == \E res \in ResolveResponses : RedirectErr(res)

NextResolve ==
    \/ PollLazy
    \/ PollBufferingPending
    \/ PollBufferingReady
    \/ PollRequestingPending
    \/ PollRequestingErr
    \/ ResolveContinue
    \/ ResolveReturn
    \/ ResolveInvalid

SpecResolve == InitResolve /\ [][NextResolve]_vars

\* ================================================================ claims
Done == result.tag \in {"Ok", "Err"}

\* All the bytes of a chunk of data, slice after slice.
RECURSIVE Bytes(_)
Bytes(d) == IF d = <<>> THEN <<>> ELSE Head(d) \o Bytes(Tail(d))

\* The bytes of the body stream s, when no item of it is an error.
RECURSIVE Concat(_)
Concat(s) == IF s = <<>> THEN <<>> ELSE Bytes(Head(s).data) \o Concat(Tail(s))

\* The first slices of the chunks of s, in arrival order.
RECURSIVE FirstSlices(_)
FirstSlices(s) == IF s = <<>> THEN <<>> ELSE chunk(Head(s).data) \o FirstSlices(Tail(s))

\* C1: in every reachable state of a call with limit max_redirects, the number
\* of transport sends is at most max_redirects + 1.
C1_SendsBounded == sends <= max_redirects + 1

C1_Witness ==
    /\ max_redirects >= 1
    /\ sends = max_redirects + 1
    /\ decision = "Continue"

\* C2: while every response is a redirect that is followed, each send after the
\* first has used one unit of the budget; a redirect-status response carrying
\* a Location is handed to the caller, as a success and unchanged, only once
\* max_redirects hops were followed, that is after exactly max_redirects + 1
\* sends and with remaining_redirects = 0.
C2_LimitExhaustion ==
    /\ inner = "Requesting" => sends = max_redirects - state.remaining_redirects + 1
    /\ (/\ result.tag = "Ok"
        /\ result.res.status \in RedirectStatuses
        /\ result.res.has_location)
       => /\ sends = max_redirects + 1
          /\ state.remaining_redirects = 0
          /\ result.res = last_res
          /\ decision = "Return"

C2_Witness ==
    /\ result.tag = "Ok"
    /\ result.res.status \in RedirectStatuses
    /\ result.res.has_location
    /\ RedirectTarget(sent.uri, result.res.location).ok
    /\ max_redirects >= 2
    /\ sends = max_redirects + 1

\* C3: when a 303 response is followed, the next materialized request has method
\* GET and an empty body, whatever the method and the body of the request
\* before it.
C3_SeeOtherForcesGet ==
    [][(sends' = sends + 1 /\ last_res'.status = 303)
         => (sent'.method = "GET" /\ sent'.body = <<>>)]_vars

C3_Witness ==
    /\ decision = "Continue"
    /\ last_res.status = 303
    /\ sends = 2
    /\ req.method = "POST"
    /\ Concat(stream) # <<>>
    /\ sent.method = "GET"
    /\ sent.body = <<>>

\* C4: when a 301, 302, 307 or 308 response is followed, the next materialized
\* request has the method and the body bytes of the request that produced the
\* response.
C4_MethodAndBodyReplayed ==
    [][(sends >= 1 /\ sends' = sends + 1 /\ last_res'.status \in {301, 302, 307, 308})
         => (sent'.method = sent.method /\ sent'.body = sent.body)]_vars

C4_Witness ==
    /\ decision = "Continue"
    /\ last_res.status \in {301, 302, 307, 308}
    /\ sends = 2
    /\ sent.method = "POST"
    /\ sent.body = FirstSlices(stream)
    /\ Len(sent.body) >= 2

\* C5: whenever a redirect is followed to a target whose host or port differs
\* from the current URI's, the next materialized request carries none of
\* Authorization, Cookie, Cookie2, WWW-Authenticate.
C5_CredentialsStripped ==
    [][(sends >= 1 /\ sends' = sends + 1 /\ ~is_same_host(sent.uri, sent'.uri))
         => (\A h \in sent'.headers : h[1] \notin SensitiveHeaders)]_vars

\* C6: whenever a redirect is followed to a target with the host and the port of
\* the current URI, every Authorization, Cookie, Cookie2 and WWW-Authenticate
\* header of the previous request is on the next request with the same value.
C6_CredentialsKept ==
    [][(sends >= 1 /\ sends' = sends + 1 /\ is_same_host(sent.uri, sent'.uri))
         => (\A h \in sent.headers : h[1] \in SensitiveHeaders => h \in sent'.headers)]_vars

C6_Witness ==
    /\ decision = "Continue"
    /\ sends = 2
    /\ last_res.location = <<"/bar">>
    /\ UriHost(sent.uri) = <<"a.com">>
    /\ \A n \in SensitiveHeaders : \E h \in sent.headers : h[1] = n

\* C7: a response with a redirect status and no Location header makes the
\* decision Return: that response is the successful result of the call and no
\* send is made for it or after it.
C7_NoLocationReturns ==
    [][(last_res'.status \in RedirectStatuses /\ ~last_res'.has_location)
         => (/\ decision' = "Return"
             /\ result' = ReadyOk(last_res')
             /\ inner' = "Swapping"
             /\ sends' = sends)]_vars

C7_Witness ==
    /\ last_res.status \in RedirectStatuses
    /\ ~last_res.has_location
    /\ result.tag = "Ok"
    /\ max_redirects >= 1
    /\ state.remaining_redirects = max_redirects - 1

\* C8: when handle_response fails on the Location of a redirect it would have
\* followed, the call ends with an InvalidLocationHeader error carrying the raw
\* Location value; the response is not returned and nothing more is sent.
C8_InvalidLocationError ==
    [][(decision' = "Err" /\ decision # "Err")
         => (/\ last_res'.status \in RedirectStatuses
             /\ last_res'.has_location
             /\ state.remaining_redirects > 0
             /\ inner' = "Swapping"
             /\ sends' = sends
             /\ result' = ReadyErr([kind |-> "InvalidLocationHeader",
                                    value |-> last_res'.location]))]_vars

\* C9: a send happens only after the body stream was drained to its end: every
\* item of the stream was taken, none was an error, and the request carries
\* what the buffer took from them, the first slice of every chunk.
C9_BufferedBeforeFirstSend ==
    /\ sends > 0 =>
         /\ taken = Len(stream) + 1
         /\ \A i \in 1..Len(stream) : ~stream[i].err
    /\ sends = 1 => sent.body = FirstSlices(stream)
    /\ inner \in {"Lazy", "Buffering"} => sends = 0

C9_Witness ==
    /\ sends = 1
    /\ notReady >= 1
    /\ Len(stream) >= 2
    /\ result.tag = "Ok"
    /\ result.res.status = 202

\* C10: against the server of the redirect_chain test, with a limit of at least
\* 5 and any original method, a finished call has made six sends, its result
\* is the 202 response, and the request for /other has method GET.
C10_RedirectChain ==
    /\ Done => /\ result = ReadyOk(Svc(sent))
               /\ result.res.status = 202
               /\ sends = 6
               /\ RequestPath(sent) = "/other"
    /\ (sends >= 1 /\ RequestPath(sent) = "/other") => sent.method = "GET"

C10_Witness ==
    /\ result.tag = "Ok"
    /\ result.res.status = 202
    /\ req.method = "POST"
    /\ max_redirects = DEFAULT_MAX_REDIRECTS
    /\ sends = 6
    /\ sent.method = "GET"

\* C11: a response whose status is none of 301, 302, 303, 307, 308 makes the
\* decision Return, whatever the budget left and with or without a Location:
\* it is the result of the call, nothing is sent for it or after it, and no
\* field of the state machine changes.
C11_OtherStatusReturns ==
    [][(last_res'.status # 0 /\ last_res'.status \notin RedirectStatuses)
         => (/\ decision' = "Return"
             /\ result' = ReadyOk(last_res')
             /\ inner' = "Swapping"
             /\ sends' = sends
             /\ state' = state)]_vars

C11_Witness ==
    /\ last_res.status = 202
    /\ last_res.has_location
    /\ result = ReadyOk(last_res)
    /\ sends = 2
    /\ state.remaining_redirects > 0

\* C12: a step that ends the call with an error sends nothing and returns no
\* response: a failing body stream gives Error::Request, a failing transport
\* or a failing handle_response gives Error::Hyper; once the error is
\* returned nothing is sent and the result does not change.
C12_ErrorsAreTerminal ==
    [][/\ (result'.tag = "Err" /\ result.tag # "Err")
            => /\ sends' = sends
               /\ inner' = "Swapping"
               /\ result'.res = NoResponse
               /\ inner = "Buffering" => (result'.err = ErrorRequest /\ stream[taken'].err)
               /\ inner = "Requesting" => result'.err = ErrorHyper
       /\ result.tag = "Err" => (sends' = sends /\ result' = result)]_vars

C12_Witness ==
    /\ result = ReadyErr(ErrorHyper)
    /\ decision = "Continue"
    /\ sends = 2
    /\ state.remaining_redirects > 0

\* C13: under a fair environment every call eventually completes, with a
\* response or with an error, for every chain of responses.
C13_Terminates == <>(result.tag \in {"Ok", "Err"})

C13_Witness ==
    /\ result.tag = "Ok"
    /\ result.res.status \in RedirectStatuses
    /\ result.res.has_location
    /\ max_redirects >= 2
    /\ sends = max_redirects + 1

\* Number of redirects followed so far: every Continue decision is followed by
\* exactly one further send.
Followed == IF sends = 0 THEN 0 ELSE sends - 1

Spent == max_redirects - state.remaining_redirects

\* C14 as stated: max_redirects - remaining_redirects equals the number of
\* redirects followed, in every reachable state.
C14_Original == inner # "Lazy" => Spent = Followed

\* C14: the budget is spent when a redirect-status response is handled with
\* budget left, before the Location header is looked at.  So the spent budget
\* equals the number of followed redirects, except after a redirect-status
\* response that arrived with budget left and carried no Location or a
\* malformed one, where it is one larger.
C14_BudgetSpent ==
    inner # "Lazy" =>
        IF \/ decision = "Err"
           \/ /\ decision = "Return"
              /\ last_res.status \in RedirectStatuses
              /\ Followed < max_redirects
        THEN Spent = Followed + 1
        ELSE Spent = Followed

C14_Witness ==
    /\ decision = "Return"
    /\ last_res.status = 301
    /\ ~last_res.has_location
    /\ sends = 2
    /\ Spent = 2

\* C15: remaining_redirects starts at the caller-supplied maximum, never
\* increases, never goes below zero, and changes only in follow_redirect, by
\* one, while a redirect-status response is handled with budget left; new,
\* set_body, create_request and a non-redirect response leave it alone.
C15_BudgetOnlyDecreases ==
    [][/\ (inner = "Lazy" /\ inner' = "Buffering")
            => state'.remaining_redirects = max_redirects
       /\ (inner = "Buffering" /\ inner' = "Requesting")
            => /\ state'.remaining_redirects = state.remaining_redirects
               /\ state' = set_body(state, state'.body)
               /\ sent' = create_request(state')
       /\ inner # "Lazy"
            => /\ state'.remaining_redirects <= state.remaining_redirects
               /\ state'.remaining_redirects >= 0
               /\ state'.remaining_redirects # state.remaining_redirects
                    => /\ inner = "Requesting"
                       /\ last_res'.status \in RedirectStatuses
                       /\ state.remaining_redirects > 0
                       /\ state'.remaining_redirects = state.remaining_redirects - 1
       /\ (inner = "Requesting" /\ last_res' # last_res
             /\ last_res'.status \notin RedirectStatuses)
            => state'.remaining_redirects = state.remaining_redirects]_vars

C15_Witness ==
    /\ max_redirects = 2
    /\ state.remaining_redirects = 0
    /\ decision = "Return"
    /\ last_res.status = 202
    /\ sends = 3

PhaseOrder ==
    {<<"Lazy", "Buffering">>,
     <<"Buffering", "Buffering">>, <<"Buffering", "Requesting">>, <<"Buffering", "Swapping">>,
     <<"Requesting", "Requesting">>, <<"Requesting", "Swapping">>}

\* C16: the phases occur in the order Lazy, Buffering, Requesting (once per
\* Continue), termination, and never go back; set_body is invoked only at the
\* Buffering-to-Requesting step, which is also the step of the first send.
C16_PhasesInOrder ==
    [][/\ <<inner, inner'>> \in PhaseOrder
       /\ inner \in {"Lazy", "Buffering"} => (sends = 0 /\ ~state.body.some)
       /\ (inner = "Buffering" /\ inner' = "Requesting")
            => /\ state'.body.some
               /\ state' = set_body(state, state'.body)
               /\ sends = 0 /\ sends' = 1
               /\ sent'.body = state'.body.bytes
       /\ (state'.body.some /\ ~state.body.some)
            => (inner = "Buffering" /\ inner' = "Requesting")
       /\ (sends = 0 /\ sends' > 0)
            => (inner = "Buffering" /\ inner' = "Requesting" /\ state'.body.some)
       /\ (inner = "Requesting" /\ inner' = "Requesting" /\ sends' # sends)
            => (decision' = "Continue" /\ sends' = sends + 1)]_vars

C16_Witness ==
    /\ inner = "Requesting"
    /\ sends = 3
    /\ notReady = 1
    /\ state.method = "POST"
    /\ Concat(stream) = <<1, 2, 3>>
    /\ state.body = Some(<<1, 2>>)

\* C17 as stated: at the end of every poll, whatever it returns, the stored
\* variant is not Swapping.
C17_Original == inner # "Swapping"

\* C17: a poll that returns Pending, or that follows a redirect, stores Buffering or
\* Requesting again; a poll that returns a response or an error leaves
\* Swapping behind, and only such a poll does.  A completed future is not
\* polled again, so no poll starts in Swapping.
C17_SwappingOnlyWhenDone ==
    /\ inner = "Swapping" <=> result.tag \in {"Ok", "Err"}
    /\ result.tag = "Pending" => inner \in {"Buffering", "Requesting"}
    /\ inner = "Swapping" => ~ENABLED Next

C17_Witness ==
    /\ inner = "Swapping"
    /\ result.tag = "Ok"
    /\ decision = "Return"
    /\ notReady = 1
    /\ sends = 2

Absolute(u) == LET p == ParseUri(u) IN p.ok /\ p.scheme # <<>> /\ p.authority # <<>>

\* C18: resolving a Location against an absolute current URI takes the scheme
\* and the authority from the Location when it has them and from the current
\* URI otherwise, and the path and query from the Location alone (an empty
\* path prints as "/"); the redirected request is sent to that URI.
C18_Resolution ==
    [][/\ compute_redirect(<<"http", "://", "a.com", "/p?q">>, <<"/x">>)
            = [ok |-> TRUE, uri |-> <<"http", "://", "a.com", "/x">>]
       /\ compute_redirect(<<"http", "://", "a.com", ":8080", "/p">>, <<"/y">>)
            = [ok |-> TRUE, uri |-> <<"http", "://", "a.com", ":8080", "/y">>]
       /\ compute_redirect(<<"http", "://", "a.com", "/p">>, <<"https", "://", "b.com", "/y">>)
            = [ok |-> TRUE, uri |-> <<"https", "://", "b.com", "/y">>]
       /\ (inner = "Requesting" /\ decision' = "Continue" /\ sends' = sends + 1
             /\ Absolute(state.uri))
            => LET cur == ParseUri(state.uri)
                   loc == ParseUri(last_res'.location)
                   r == compute_redirect(state.uri, last_res'.location)
                   got == ParseUri(r.uri)
               IN  /\ r.ok /\ got.ok
                   /\ got.scheme = IF loc.scheme # <<>> THEN loc.scheme ELSE cur.scheme
                   /\ got.authority
                        = IF loc.authority # <<>> THEN loc.authority ELSE cur.authority
                   /\ got.path = IF loc.path = <<"">> THEN <<"/">> ELSE loc.path
                   /\ state'.uri = r.uri
                   /\ sent'.uri = r.uri]_vars

C18_Witness ==
    /\ req.uri = <<"http", "://", "a.com", ":8080", "/p">>
    /\ sends = 3
    /\ last_res.location = <<"/y">>
    /\ state.uri = <<"https", "://", "b.com", "/y">>
    /\ sent.uri = state.uri

\* C19 as stated: after the first followed redirect the request's uri is
\* absolute, whatever the original request URI was.
C19_Original == sends >= 2 => (Absolute(state.uri) /\ Absolute(sent.uri))

\* C19: when the original request URI is absolute, the uri is absolute after
\* every followed redirect, for relative and for absolute Locations, and every
\* send targets an absolute URI.
C19_AbsoluteStaysAbsolute ==
    (Absolute(req.uri) /\ sends >= 1) => (Absolute(state.uri) /\ Absolute(sent.uri))

C19_Witness ==
    /\ Absolute(req.uri)
    /\ sends = 3
    /\ last_res.location = <<"/bar">>
    /\ decision = "Continue"
    /\ state.uri = <<"http", "://", "a.com", ":8080", "/bar">>
    /\ sent.uri = state.uri

BodyFails == \E i \in 1..Len(stream) : stream[i].err

\* C20: when the body stream yields an error while it is buffered, nothing is
\* ever sent and the call can only complete with the request (body-read)
\* error, returned by the poll that took the failing item; that error is
\* returned in no other case.
C20_BodyErrorNoSend ==
    /\ BodyFails
         => /\ sends = 0
            /\ inner \in {"Lazy", "Buffering", "Swapping"}
            /\ result.tag # "Ok"
            /\ (result.tag = "Err" \/ ~ENABLED Next)
                 => (result = ReadyErr(ErrorRequest) /\ stream[taken].err)
    /\ result.err.kind = "Request"
         => (BodyFails /\ sends = 0 /\ inner = "Swapping" /\ sent = NoRequest)

C20_Witness ==
    /\ result = ReadyErr(ErrorRequest)
    /\ Len(stream) = 2
    /\ taken = 2
    /\ buf = chunk(stream[1].data)
    /\ notReady = 1
    /\ sends = 0

\* C21: for every stream of chunks and every interleaving of "not ready"
\* polls, the buffer holds all the bytes of the chunks taken so far in arrival
\* order; at the end of the stream it resolves to the concatenation of all
\* chunks (empty for no chunks), and at the first error item it resolves to
\* the error and hands out no bytes.  The buffer takes only the first slice
\* of a chunk, so this fails for a chunk of more than one slice.
C21_BufferConcatenates ==
    [][inner = "Buffering" =>
         /\ buf = Concat(SubSeq(stream, 1, taken))
         /\ inner' = "Buffering"
              => /\ result' = Pending
                 /\ taken' \in taken..Len(stream)
                 /\ \A i \in 1..taken' : ~stream[i].err
                 /\ buf' = Concat(SubSeq(stream, 1, taken'))
         /\ inner' = "Requesting"
              => /\ \A i \in 1..Len(stream) : ~stream[i].err
                 /\ taken' = Len(stream) + 1
                 /\ state'.body = Some(Concat(stream))
                 /\ sent'.body = Concat(stream)
         /\ inner' = "Swapping"
              => /\ stream[taken'].err
                 /\ \A i \in 1..(taken' - 1) : ~stream[i].err
                 /\ result' = ReadyErr(ErrorRequest)
                 /\ state'.body = None
                 /\ sent' = NoRequest]_vars

\* A step of the Requesting phase in which a response is handled.
Handles == inner = "Requesting" /\ (sends' # sends \/ decision' \in {"Return", "Err"})

\* C22: handling a 303 leaves the logical request with method GET and no
\* body, and from then on every step keeps it so: every later request of the
\* call is a GET with an empty body, whatever the later redirect statuses.
C22_SeeOtherIsPermanent ==
    [][/\ (Handles /\ last_res'.status = 303)
            => (state'.method = "GET" /\ state'.body = None)
       /\ (inner = "Requesting" /\ state.method = "GET" /\ state.body = None)
            => /\ state'.method = "GET"
               /\ state'.body = None
               /\ sends' # sends => (sent'.method = "GET" /\ sent'.body = <<>>)
       /\ (inner = "Requesting" /\ state.body = None) => state.method = "GET"]_vars

C22_Witness ==
    /\ req.method = "POST"
    /\ Concat(stream) = <<1, 2, 3>>
    /\ sends = 3
    /\ last_res.status = 307
    /\ decision = "Continue"
    /\ sent.method = "GET"
    /\ sent.body = <<>>

\* C23: the headers of the logical request never grow.  The state machine
\* starts with the headers of the original request, no step adds a header to
\* them, and every materialized request carries exactly the headers the state
\* machine holds: a subset of the original ones, so a header once removed
\* cannot come back, whatever host a later redirect leads to.
C23_HeadersNeverGrow ==
    [][/\ (inner = "Lazy" /\ inner' = "Buffering") => state'.headers = req.headers
       /\ inner # "Lazy" => state'.headers \subseteq state.headers
       /\ sends' # sends => sent'.headers = state'.headers
       /\ sent'.headers \subseteq AllHeaders]_vars

C23_Witness ==
    /\ req.uri = <<"http", "://", "a.com", ":8080", "/p">>
    /\ sends = 3
    /\ state.uri = <<"http", "://", "a.com", ":8080", "/x">>
    /\ is_same_host(req.uri, state.uri)
    /\ sent.headers = {<<"Accept", "any">>}
    /\ sent.headers = state.headers

====
